---------------------------- MODULE Spec2Model ----------------------------
(***************************************************************************)
(* Asset lifecycle of adapt-authoring-assets: the database record, the     *)
(* primary file and the derived thumbnail of an asset across insert,       *)
(* update (replace), delete and deleteMany.                                *)
(*                                                                         *)
(* The model follows the asset-class revision of the module:               *)
(*   src/lib/AssetsModule.js lines 421-587 (class Assetsmodule),           *)
(*   src/lib/LocalAsset.js lines 1-124 (class LocalAsset) and              *)
(*   src/lib/LocalAsset.js lines 126-361 (class AbstractAsset).            *)
(*                                                                         *)
(* Strings that the code concatenates, splits or tests for a prefix are    *)
(* sequences of one-character strings, so that `${id}.${ext}`, extname and *)
(* startsWith are computed and not assumed.                                *)
(*                                                                         *)
(* Every await of the code that touches the file system, the transcoder or *)
(* the database is one step of the operation in progress (op.pc).  The     *)
(* database collaborator (super.insert / super.update / super.delete) is   *)
(* outside the repository: insert and delete by id succeed, the update     *)
(* that persists the derived fields may be rejected (validation).          *)
(***************************************************************************)
EXTENDS Naturals, Sequences, FiniteSets

(***************************************************************************)
(* Bounds of the model.                                                    *)
(***************************************************************************)
\* number of asset ids the database hands out (super.insert assigns _id)
MaxAssets == 2
\* number of lifecycle operations (insert, update, delete, deleteMany) one run starts
MaxOps == 3
\* chunks of the longest input stream given to write
MaxChunks == 3
\* segments of the longest path given to resolvePath
MaxSegs == 3

(***************************************************************************)
(* Strings.                                                                *)
(***************************************************************************)
Digits == <<"1", "2", "3", "4", "5", "6", "7", "8", "9">>
\* doc._id.toString()
IdStr(i) == <<Digits[i]>>

PNG == <<"p", "n", "g">>
MP4 == <<"m", "p", "4">>
SVG == <<"s", "v", "g">>
SVGXML == <<"s", "v", "g", "+", "x", "m", "l">>
DotSVG == <<".">> \o SVG

StartsWith(s, p) == Len(s) >= Len(p) /\ SubSeq(s, 1, Len(p)) = p

\* index of the last "." of s, 0 when there is none
LastDot(s) ==
  LET dots == {i \in 1..Len(s) : s[i] = "."}
  IN IF dots = {} THEN 0 ELSE CHOOSE i \in dots : \A j \in dots : j <= i

\* path.extname of a file name without directory part
ExtName(s) == IF LastDot(s) <= 1 THEN <<>> ELSE SubSeq(s, LastDot(s), Len(s))

(***************************************************************************)
(* Paths.  A path value is relative (a name to be resolved against a root) *)
(* or absolute (already a location: a directory and a name).               *)
(***************************************************************************)
NoPath == [abs |-> FALSE, dir |-> "", name |-> <<>>]
RelPath(n) == [abs |-> FALSE, dir |-> "", name |-> n]
AbsPath(d, n) == [abs |-> TRUE, dir |-> d, name |-> n]

\* configuration: assetDir, thumbnailDir and the upload directory
AssetDir == "assetDir"
ThumbnailDir == "thumbnailDir"
UploadDir == "uploadDir"

\* LocalAsset.resolvePath (basePath is truthy for every wrapper of the model)
resolvePath(filePath, basePath) ==
  IF filePath.abs THEN filePath ELSE AbsPath(basePath, filePath.name)

(***************************************************************************)
(* Paths at the level of their segments, for resolvePath on its own: a     *)
(* path is absolute or relative and a sequence of segments, among them     *)
(* "." and "..".  A root is the segments of an absolute directory; <<>>    *)
(* stands for a root that is not set (undefined or '').                    *)
(***************************************************************************)
SegPath(a, sg) == [abs |-> a, segs |-> sg]

RECURSIVE normalize(_, _)
\* path.resolve on an absolute path: "." is dropped, ".." drops the segment
\* before it and is dropped itself at "/"
normalize(done, todo) ==
  IF todo = <<>> THEN done
  ELSE IF Head(todo) = "." THEN normalize(done, Tail(todo))
  ELSE IF Head(todo) = ".."
    THEN normalize(IF done = <<>> THEN <<>> ELSE SubSeq(done, 1, Len(done) - 1), Tail(todo))
  ELSE normalize(Append(done, Head(todo)), Tail(todo))

\* path.resolve(basePath, filePath) for an absolute basePath
pathResolve(basePath, filePath) == SegPath(TRUE, normalize(<<>>, basePath \o filePath.segs))

\* LocalAsset.resolvePath on segments: what it returns or the error it throws
resolvePathSegs(filePath, basePath) ==
  IF basePath = <<>> THEN [err |-> "INVALID_PARAMS", out |-> SegPath(FALSE, <<>>)]
  ELSE IF filePath.abs THEN [err |-> "", out |-> filePath]
  ELSE [err |-> "", out |-> pathResolve(basePath, filePath)]

\* the roots and the paths resolvePath is called with
Roots == {<<"data", "assets">>, <<"data", "thumbs">>, <<>>}
Segments == {"a", ".", ".."}
RECURSIVE SegSeqs(_)
SegSeqs(n) ==
  IF n = 0 THEN {<<>>}
  ELSE SegSeqs(n - 1) \cup {Append(q, x) : q \in {r \in SegSeqs(n - 1) : Len(r) = n - 1}, x \in Segments}
SegPaths == {SegPath(a, sg) : a \in BOOLEAN, sg \in SegSeqs(MaxSegs)}


(***************************************************************************)
(* Uploaded files (FormidableFile): mimetype already split at "/",         *)
(* originalFilename as typed by the client.  file.filepath is the          *)
(* temporary copy the upload middleware made.                              *)
(***************************************************************************)
File(t, st, fn) == [type |-> t, subtype |-> st, originalFilename |-> fn]
NoFile == File("", <<>>, <<>>)
Files ==
  { File("image", PNG, <<"a">> \o <<".">> \o PNG),
    File("image", SVGXML, <<"a">> \o DotSVG),
    File("image", SVGXML, <<"a">>),
    File("video", MP4, <<"a">> \o <<".">> \o MP4) }
UploadLoc == AbsPath(UploadDir, <<"u">>)

\* a file outside the asset store, and the `path` a caller may put in update input
Victim == AbsPath("elsewhere", <<"x">>)
CallerPaths == {Victim}

\* configured thumbnailExt values
ThumbExts == {<<".">> \o <<"j", "p", "g">>, <<".">> \o PNG}

(***************************************************************************)
(* Database documents and the data of an asset wrapper (this.data).        *)
(***************************************************************************)
EmptyDoc ==
  [path |-> NoPath, repo |-> "undefined", type |-> "", subtype |-> <<>>, hasThumb |-> FALSE,
   size |-> "none", resolution |-> "none", duration |-> "none"]

\* AbstractAsset.setData: Object.assign(this.data, data) for the given fields
setData(data, fields) ==
  [k \in DOMAIN data |-> IF k \in DOMAIN fields THEN fields[k] ELSE data[k]]

\* AbstractAsset.getFileExtension
getFileExtension(file) ==
  LET subtype == file.subtype
      originalExtension == ExtName(file.originalFilename)
  IN IF subtype = SVGXML
       THEN IF StartsWith(originalExtension, DotSVG) THEN originalExtension ELSE SVG
       ELSE subtype

\* updateFile with hasThumb computed from the type alone
updateFileDataAnyImage(id, file) ==
  [path |-> RelPath(IdStr(id) \o <<".">> \o getFileExtension(file)),
   size |-> "upload",
   subtype |-> file.subtype,
   type |-> file.type,
   hasThumb |-> file.type \in {"image", "video"}]

\* the object updateFile passes to setData before the file operations
updateFileData(id, file) ==
  [path |-> RelPath(IdStr(id) \o <<".">> \o getFileExtension(file)),
   size |-> "upload",
   subtype |-> file.subtype,
   type |-> file.type,
   hasThumb |-> (file.type = "image" /\ file.subtype # SVGXML) \/ file.type = "video"]

\* AbstractAsset.path of a wrapper whose root is assetDir (NoPath: undefined)
assetPath(data) == IF data.path = NoPath THEN NoPath ELSE resolvePath(data.path, AssetDir)

\* path of AbstractAsset.thumb: id + thumbnailExt under thumbnailDir
thumbPath(id, ext) == resolvePath(RelPath(IdStr(id) \o ext), ThumbnailDir)

\* path of the temporary copy generateThumb makes: thumb.dirname joined with filename
tempPath(data) == AbsPath(ThumbnailDir, assetPath(data).name)

\* LocalAsset.generateMetadata: the fields the probe adds (probeOk: ffprobe succeeded)
generateMetadata(data, probeOk) ==
  IF ~data.hasThumb \/ ~probeOk THEN [x \in {} |-> "none"]
  ELSE IF data.type # "image"
    THEN [resolution |-> "set", duration |-> "set", size |-> "probe"]
    ELSE [resolution |-> "set", size |-> "probe"]

(***************************************************************************)
(* State.                                                                  *)
(***************************************************************************)
VARIABLES
  records,       \* the assets collection: _id -> document
  nextId,        \* the next _id super.insert assigns
  fs,            \* the files that exist (absolute paths)
  thumbnailExt,  \* configuration value thumbnailExt
  op,            \* the lifecycle operation in progress, its position and locals;
                 \* op.cause (the step that threw first) and op.pre (which of the
                 \* asset's files existed when delete started) only record history
  nops,          \* operations and scans started so far (bounded by MaxOps)
  hk,            \* the thumbnail generations started by performHousekeeping
  wr,            \* one call of LocalAsset.write seen at the level of its streams
  faulted,       \* history: some file-system, transcoder, probe or database call
                 \* has failed so far
  scan,          \* whether performHousekeeping has run, and the asset.ensureExists()
                 \* calls it started
  log,           \* what the catch handlers of performHousekeeping have logged
  assetTypes,    \* Assetsmodule.assetTypes: name -> registered asset class
  repositories,  \* Assetsmodule.repositories of the repository revision: name -> instance
  reg,           \* the last call of the registry and how it ended
  rp,            \* a call of resolvePath: its arguments and what it returned
  disk,          \* the content of the files LocalAsset.move and read work on
  mv,            \* a call of LocalAsset.move or LocalAsset.read in progress
  srv,           \* a request to /serve/:_id in progress
  dl             \* the calls of LocalAsset.delete made side by side, and their files

\* the variables of the registry, of path resolution, of move, of serving and
\* of the side-by-side deletes
svc == <<assetTypes, repositories, reg, rp, disk, mv, srv, dl>>

vars ==
  <<records, nextId, fs, thumbnailExt, op, nops, hk, wr, faulted, scan, log,
    assetTypes, repositories, reg, rp, disk, mv, srv, dl>>

Idle ==
  [kind |-> "none", pc |-> "idle", id |-> 0, file |-> NoFile, data |-> EmptyDoc,
   chainA |-> "none", chainB |-> "none", err |-> "", pend |-> "", derr |-> "",
   ret |-> EmptyDoc, cause |-> "", pre |-> {}]

\* a generateThumb started by performHousekeeping: its position and the record
\* data the scan read
HkIdle == [pc |-> "idle", data |-> EmptyDoc, err |-> ""]

\* an asset.ensureExists() started by performHousekeeping
ScanIdle == [pc |-> "idle", data |-> EmptyDoc]

\* performHousekeeping has not run
NoScan == [ran |-> FALSE, ensure |-> [i \in 1..MaxAssets |-> ScanIdle]]

\* this.log(level, e) of performHousekeeping for the record id
LogEntry(level, id, code) == [level |-> level, id |-> id, code |-> code]

\* no write in progress
WrIdle ==
  [unread |-> 0, buffered |-> 0, stored |-> 0, total |-> 0,
   promise |-> "none", out |-> "none", caller |-> "none", inp |-> "none"]

(***************************************************************************)
(* The registry of asset types (Assetsmodule.assetTypes) and, in the       *)
(* repository revision of the module, of repositories                      *)
(* (Assetsmodule.repositories).  A class or instance is known by its name  *)
(* and by the class it directly extends.  Both registries are object       *)
(* literals: obj[name] is the own property, else the member of that name   *)
(* inherited from Object.prototype, else undefined.  impl tells apart two  *)
(* classes of the same name and base.                                      *)
(***************************************************************************)
AssetClass(n, b, v) == [name |-> n, base |-> b, impl |-> v]
Undefined == AssetClass("", "undefined", "")
\* Object, which every object literal has as its member `constructor`
ObjectConstructor == AssetClass("Object", "builtin", "")
\* LocalAsset, and the LocalAssetRepository instance of the repository revision
LocalAssetClass == AssetClass("local", "AbstractAsset", "A")

TypeNames == {"local", "s3", "constructor", ""}
Bases == {"AbstractAsset", "LocalAsset", "none"}
Impls == {"A", "B"}
AssetClasses == {AssetClass(n, b, v) : n \in TypeNames, b \in Bases, v \in Impls}
\* getConfig('defaultAssetRepository')
DefaultAssetRepository == "local"
\* the repo field of the data given to createFsWrapper
RepoFields == TypeNames \cup {"undefined"}

member(obj, name) ==
  IF name \in DOMAIN obj THEN obj[name]
  ELSE IF name = "constructor" THEN ObjectConstructor ELSE Undefined

\* obj[name] = value
assign(obj, name, value) ==
  [n \in DOMAIN obj \cup {name} |-> IF n = name THEN value ELSE obj[n]]

\* createFsWrapper(doc) inside an operation: the error it throws, "" when it
\* returns an asset wrapper
wrapperError(doc) ==
  LET AssetType == member(assetTypes, IF doc.repo = "undefined" THEN DefaultAssetRepository
                                      ELSE doc.repo)
  IN IF AssetType = Undefined THEN "ASSET_TYPE_UNKNOWN"
     ELSE IF AssetType = ObjectConstructor THEN "TypeError" ELSE ""

\* the repo a caller may put in update input ("undefined": none given)
CallerRepos == {"undefined", "s3"}

\* no call of the registry made yet
RegIdle == [call |-> "none", name |-> "", cls |-> Undefined, err |-> "", out |-> Undefined]

(***************************************************************************)
(* Files with their content, for LocalAsset.move and LocalAsset.read       *)
(* called on their own: disk.files maps the locations that exist to their  *)
(* content, disk.dirs are the directories that exist.                      *)
(***************************************************************************)
Contents == {"x", "y"}
NewDir == "newDir"
\* the paths move, read and write are called with (relative ones are resolved
\* against assetDir)
MovePaths ==
  {RelPath(<<"a">>), RelPath(<<"b">>), AbsPath(AssetDir, <<"b">>), AbsPath(NewDir, <<"a">>)}
EmptyDisk == [files |-> [l \in {} |-> "x"], dirs |-> {}]
NoMove == [from |-> NoPath, to |-> NoPath, content |-> "none"]
\* no call of move or read made yet
MvIdle ==
  [call |-> "none", pc |-> "done", path |-> NoPath, newPath |-> NoPath,
   err |-> "", out |-> "none", before |-> EmptyDisk, last |-> NoMove]

\* no request to /serve/:_id in progress: thumb is req.query.thumb === 'true',
\* data the record the handler found, out the error given to next ("ok" when
\* the stream was opened), sent whether content went to the response
SrvIdle ==
  [pc |-> "idle", id |-> 0, thumb |-> FALSE, data |-> EmptyDoc, out |-> "", sent |-> FALSE]

\* the paths that are deleted side by side, and the callers
DelPaths == {RelPath(<<"1", ".", "p", "n", "g">>), RelPath(<<"2", ".", "p", "n", "g">>)}
Callers == {1, 2}
\* a caller that has no delete under way
DlCallIdle == [cs |-> "none", path |-> NoPath, pre |-> FALSE, err |-> ""]
DlIdle == [fs |-> {}, call |-> [k \in Callers |-> DlCallIdle]]

\* no call of resolvePath made yet
RpIdle == [called |-> FALSE, root |-> <<>>, path |-> SegPath(FALSE, <<>>),
           err |-> "", out |-> SegPath(FALSE, <<>>)]

Init ==
  /\ records = [i \in {} |-> EmptyDoc]
  /\ nextId = 1
  /\ fs = {Victim}
  /\ thumbnailExt \in ThumbExts
  /\ op = Idle
  /\ nops = 0
  /\ hk = [i \in 1..MaxAssets |-> HkIdle]
  /\ wr = WrIdle
  /\ faulted = FALSE
  /\ scan = NoScan
  /\ log = {}
  /\ assetTypes = [n \in {"local"} |-> LocalAssetClass]
  /\ repositories = [n \in {"local"} |-> LocalAssetClass]
  /\ reg = RegIdle
  /\ rp = RpIdle
  /\ disk = EmptyDisk
  /\ mv = MvIdle
  /\ srv = SrvIdle
  /\ dl = DlIdle

(***************************************************************************)
(* LocalAsset.delete, one awaited file-system call per step.               *)
(*   thumbStat, thumbRm: super.delete(), that is thumb.delete(), the same  *)
(*                       method run on the thumbnail wrapper               *)
(*   fileStat:           ensureExists(this.path)                           *)
(*   fileRm:             fsPromises.rm(this.path)                          *)
(* A missing file makes ensureExists throw NOT_FOUND, which the catch      *)
(* swallows; rm of a file that is no longer there fails with the raw       *)
(* ENOENT, whose code is not NOT_FOUND and which therefore propagates.     *)
(* rmOk = FALSE is any other I/O failure of rm.                            *)
(***************************************************************************)
Settled(cs) == cs \in {"done", "failed"}

\* LocalAsset.delete without the call of super.delete(): the primary file first
deleteStartFileFirst(path, hasThumb) ==
  IF path = NoPath THEN "done" ELSE "fileStat"

deleteStart(path, hasThumb) ==
  IF path = NoPath THEN "done" ELSE IF hasThumb THEN "thumbStat" ELSE "fileStat"

\* LocalAsset.delete without its catch: NOT_FOUND of ensureExists is thrown on
deleteStepNoCatch(cs, path, thumb, f, rmOk) ==
  CASE cs = "thumbStat" ->
         IF thumb \in f THEN [cs |-> "thumbRm", fs |-> f, err |-> ""]
         ELSE [cs |-> "failed", fs |-> f, err |-> "NOT_FOUND"]
    [] cs = "thumbRm" ->
         IF rmOk /\ thumb \in f THEN [cs |-> "fileStat", fs |-> f \ {thumb}, err |-> ""]
         ELSE [cs |-> "failed", fs |-> f, err |-> "EIO"]
    [] cs = "fileStat" ->
         IF path \in f THEN [cs |-> "fileRm", fs |-> f, err |-> ""]
         ELSE [cs |-> "failed", fs |-> f, err |-> "NOT_FOUND"]
    [] cs = "fileRm" ->
         IF rmOk /\ path \in f THEN [cs |-> "done", fs |-> f \ {path}, err |-> ""]
         ELSE [cs |-> "failed", fs |-> f, err |-> "EIO"]

deleteStep(cs, path, thumb, f, rmOk) ==
  CASE cs = "thumbStat" ->
         [cs |-> IF thumb \in f THEN "thumbRm" ELSE "fileStat", fs |-> f, err |-> ""]
    [] cs = "thumbRm" ->
         IF ~rmOk THEN [cs |-> "failed", fs |-> f, err |-> "EIO"]
         ELSE IF thumb \in f THEN [cs |-> "fileStat", fs |-> f \ {thumb}, err |-> ""]
         ELSE [cs |-> "failed", fs |-> f, err |-> "ENOENT"]
    [] cs = "fileStat" ->
         [cs |-> IF path \in f THEN "fileRm" ELSE "done", fs |-> f, err |-> ""]
    [] cs = "fileRm" ->
         IF ~rmOk THEN [cs |-> "failed", fs |-> f, err |-> "EIO"]
         ELSE IF path \in f THEN [cs |-> "done", fs |-> f \ {path}, err |-> ""]
         ELSE [cs |-> "failed", fs |-> f, err |-> "ENOENT"]

\* delete() of a wrapper without thumbnail, run to its end with nothing in between
unlinkNow(path, f, rmOk) ==
  LET s1 == deleteStep(deleteStart(path, FALSE), path, path, f, rmOk)
  IN IF Settled(s1.cs) THEN s1 ELSE deleteStep(s1.cs, path, path, s1.fs, rmOk)

\* what the write stream does to the destination: "ok", or an 'error' of the
\* output stream after ("partial") or before ("nofile") the file was created
WriteOutcomes == {"ok", "partial", "nofile"}
written(path, f, w) == IF w = "nofile" THEN f ELSE f \cup {path}

(***************************************************************************)
(* Where an exception thrown inside updateFile goes: insert catches it and *)
(* calls this.delete (rollback); update lets it through to the caller.     *)
(***************************************************************************)
\* insert without its try/catch: the exception goes straight to the caller
thrownNoRollback(o, e) ==
  [o EXCEPT !.err = e, !.cause = IF o.cause = "" THEN o.pc ELSE o.cause, !.pc = "return"]

thrown(o, e) ==
  LET o1 == [o EXCEPT !.err = e, !.cause = IF o.cause = "" THEN o.pc ELSE o.cause]
  IN IF o.kind = "insert" THEN [o1 EXCEPT !.pc = "rollback"]
     ELSE [o1 EXCEPT !.pc = "return"]

\* updateFile after `await this.delete()`: setData, then on to the write
afterDelete(o) ==
  [o EXCEPT !.pc = "write", !.chainA = "none", !.file = NoFile,
            !.data = setData(o.data, updateFileData(o.id, o.file))]

\* updateFile entered with the wrapper made from doc
updateFileStart(o, doc) ==
  LET cs == deleteStart(assetPath(doc), doc.hasThumb)
      o1 == [o EXCEPT !.data = doc, !.chainA = cs, !.pc = "delete"]
  IN IF o.file = NoFile THEN thrown(o1, "TypeError")
     ELSE IF cs = "done" THEN afterDelete(o1) ELSE o1

(***************************************************************************)
(* Assetsmodule.insert                                                     *)
(***************************************************************************)
Insert(file) ==
  /\ op.pc = "idle"
  /\ nops < MaxOps
  /\ nops' = nops + 1
  /\ nextId <= MaxAssets
  /\ records' = [i \in DOMAIN records \cup {nextId} |->
                   IF i = nextId THEN EmptyDoc ELSE records[i]]
  /\ nextId' = nextId + 1
  /\ fs' = IF file = NoFile THEN fs ELSE fs \cup {UploadLoc}
  /\ op' = updateFileStart([Idle EXCEPT !.kind = "insert", !.id = nextId, !.file = file],
                           EmptyDoc)
  /\ UNCHANGED <<thumbnailExt, scan, log, svc, wr, hk, faulted>>

\* insert of data that names a repository: super.insert stores it, and a
\* createFsWrapper that throws is caught by insert's try/catch
InsertWithRepo(repo, file) ==
  /\ op.pc = "idle"
  /\ nops < MaxOps
  /\ nops' = nops + 1
  /\ nextId <= MaxAssets
  /\ LET doc == IF repo = "undefined" THEN EmptyDoc ELSE [EmptyDoc EXCEPT !.repo = repo]
         o == [Idle EXCEPT !.kind = "insert", !.id = nextId, !.file = file]
     IN /\ records' = [i \in DOMAIN records \cup {nextId} |->
                         IF i = nextId THEN doc ELSE records[i]]
        /\ op' = IF wrapperError(doc) # ""
                   THEN thrown([o EXCEPT !.data = doc, !.cause = "createFsWrapper"],
                               wrapperError(doc))
                 ELSE updateFileStart(o, doc)
  /\ nextId' = nextId + 1
  /\ fs' = IF file = NoFile THEN fs ELSE fs \cup {UploadLoc}
  /\ UNCHANGED <<thumbnailExt, scan, log, svc, wr, hk, faulted>>

(***************************************************************************)
(* Assetsmodule.update: data is the caller's input; cpath is its `path`    *)
(* (NoPath: none given), repo its `repo` ("undefined": none given).        *)
(* super.update stores the input, then the file is processed when one was  *)
(* uploaded.                                                               *)
(***************************************************************************)
Update(id, cpath, repo, file) ==
  /\ op.pc = "idle"
  /\ nops < MaxOps
  /\ nops' = nops + 1
  /\ id \in DOMAIN records
  /\ LET doc1 == IF cpath = NoPath THEN records[id] ELSE [records[id] EXCEPT !.path = cpath]
         doc == IF repo = "undefined" THEN doc1 ELSE [doc1 EXCEPT !.repo = repo]
         o == [Idle EXCEPT !.kind = "update", !.id = id, !.file = file]
     IN /\ records' = [records EXCEPT ![id] = doc]
        /\ op' = IF file = NoFile THEN [o EXCEPT !.pc = "return", !.ret = doc]
                 ELSE IF wrapperError(doc) # ""
                   THEN [o EXCEPT !.pc = "return", !.err = wrapperError(doc),
                                  !.cause = "createFsWrapper"]
                 ELSE updateFileStart(o, doc)
  /\ fs' = IF file = NoFile THEN fs ELSE fs \cup {UploadLoc}
  /\ UNCHANGED <<nextId, thumbnailExt, scan, log, svc, wr, hk, faulted>>

(***************************************************************************)
(* AbstractAsset.updateFile, step by step                                  *)
(***************************************************************************)
\* await this.delete()
UpdateFileDelete ==
  /\ op.pc = "delete"
  /\ \E rmOk \in BOOLEAN :
       LET r == deleteStep(op.chainA, assetPath(op.data), thumbPath(op.id, thumbnailExt),
                           fs, rmOk)
       IN /\ fs' = r.fs
          /\ faulted' = (faulted \/ r.err # "")
          /\ op' = IF r.cs = "done" THEN afterDelete(op)
                   ELSE IF r.cs = "failed" THEN thrown(op, r.err)
                   ELSE [op EXCEPT !.chainA = r.cs]
  /\ UNCHANGED <<records, nextId, thumbnailExt, scan, log, svc, wr, hk, nops>>

\* await this.write(await localAsset.read(), this.path)
UpdateFileWrite ==
  /\ op.pc = "write"
  /\ IF UploadLoc \notin fs
       THEN /\ op' = thrown(op, "NOT_FOUND")
            /\ fs' = fs
            /\ faulted' = faulted
       ELSE \E w \in WriteOutcomes :
              /\ fs' = written(assetPath(op.data), fs, w)
              /\ faulted' = (faulted \/ w # "ok")
              /\ op' = IF w = "ok" THEN [op EXCEPT !.pc = "unlink"] ELSE thrown(op, "EIO")
  /\ UNCHANGED <<records, nextId, thumbnailExt, scan, log, svc, wr, hk, nops>>

\* await localAsset.delete(); generateThumb and generateMetadata return at once
\* for an asset without thumbnail
UpdateFileUnlink ==
  /\ op.pc = "unlink"
  /\ \E rmOk \in BOOLEAN :
       LET r == unlinkNow(UploadLoc, fs, rmOk)
       IN /\ fs' = r.fs
          /\ faulted' = (faulted \/ r.err # "")
          /\ op' = IF r.cs = "failed" THEN thrown(op, r.err)
                   ELSE [op EXCEPT !.pc = IF op.data.hasThumb THEN "tmpWrite" ELSE "dbUpdate"]
  /\ UNCHANGED <<records, nextId, thumbnailExt, scan, log, svc, wr, hk, nops>>

\* generateThumb: await tempAsset.write(await this.read(), tempAsset.path)
\* (outside the try/finally: a failure here skips the cleanup)
GenerateThumbTempWrite ==
  /\ op.pc = "tmpWrite"
  /\ IF assetPath(op.data) \notin fs
       THEN /\ op' = thrown(op, "NOT_FOUND")
            /\ fs' = fs
            /\ faulted' = faulted
       ELSE \E w \in WriteOutcomes :
              /\ fs' = written(tempPath(op.data), fs, w)
              /\ faulted' = (faulted \/ w # "ok")
              /\ op' = IF w = "ok" THEN [op EXCEPT !.pc = "ffmpeg"] ELSE thrown(op, "EIO")
  /\ UNCHANGED <<records, nextId, thumbnailExt, scan, log, svc, wr, hk, nops>>

\* generateThumb: the transcoder run on the temporary copy
GenerateThumbFfmpeg ==
  /\ op.pc = "ffmpeg"
  /\ \E toolOk \in BOOLEAN :
       LET ok == toolOk /\ tempPath(op.data) \in fs
       IN /\ fs' = IF ok /\ op.data.type \in {"image", "video"}
                     THEN fs \cup {thumbPath(op.id, thumbnailExt)} ELSE fs
          /\ faulted' = (faulted \/ ~toolOk)
          /\ op' = [op EXCEPT !.pc = "tmpDelete",
                              !.pend = IF ok THEN "" ELSE "GENERATE_THUMB_FAIL",
                              !.cause = IF ok THEN "" ELSE "ffmpeg"]
  /\ UNCHANGED <<records, nextId, thumbnailExt, scan, log, svc, wr, nops, hk>>

\* generateThumb: finally { await tempAsset.delete() }
GenerateThumbCleanup ==
  /\ op.pc = "tmpDelete"
  /\ \E rmOk \in BOOLEAN :
       LET r == unlinkNow(tempPath(op.data), fs, rmOk)
           o == [op EXCEPT !.pend = ""]
       IN /\ fs' = r.fs
          /\ faulted' = (faulted \/ r.err # "")
          /\ op' = IF r.cs = "failed" THEN thrown(o, r.err)
                   ELSE IF op.pend # "" THEN thrown(o, op.pend)
                   ELSE [o EXCEPT !.pc = "probe"]
  /\ UNCHANGED <<records, nextId, thumbnailExt, scan, log, svc, wr, hk, nops>>

\* a generateMetadata that rejects when ffprobe fails
UpdateFileMetadataThrows ==
  /\ op.pc = "probe"
  /\ \E probeOk \in BOOLEAN :
       /\ faulted' = (faulted \/ ~probeOk)
       /\ op' = IF probeOk
                  THEN [op EXCEPT !.pc = "dbUpdate",
                                  !.data = setData(op.data, generateMetadata(op.data, TRUE))]
                  ELSE thrown(op, "METADATA_GEN_FAILED")
  /\ UNCHANGED <<records, nextId, fs, thumbnailExt, scan, log, svc, wr, nops, hk>>

\* return this.setData(await this.generateMetadata(localAsset))
UpdateFileMetadata ==
  /\ op.pc = "probe"
  /\ \E probeOk \in BOOLEAN :
       /\ faulted' = (faulted \/ ~probeOk)
       /\ op' = [op EXCEPT !.pc = "dbUpdate",
                           !.data = setData(op.data, generateMetadata(op.data, probeOk))]
  /\ UNCHANGED <<records, nextId, fs, thumbnailExt, scan, log, svc, wr, nops, hk>>

\* insert and update of the repository revision: the record is persisted, and
\* the caller gets the document read before the file was processed
PersistUpdateReturnsDoc ==
  /\ op.pc = "dbUpdate"
  /\ \E dbOk \in BOOLEAN :
       /\ faulted' = (faulted \/ ~dbOk)
       /\ IF dbOk
            THEN /\ records' = [records EXCEPT ![op.id] = op.data]
                 /\ op' = [op EXCEPT !.pc = "return", !.ret = records[op.id]]
            ELSE /\ records' = records
                 /\ op' = thrown(op, "DB_REJECT")
  /\ UNCHANGED <<nextId, fs, thumbnailExt, scan, log, svc, wr, nops, hk>>

\* super.update({ _id }, updateData): persists the wrapper's data, or rejects it
PersistUpdate ==
  /\ op.pc = "dbUpdate"
  /\ \E dbOk \in BOOLEAN :
       /\ faulted' = (faulted \/ ~dbOk)
       /\ IF dbOk
            THEN /\ records' = [records EXCEPT ![op.id] = op.data]
                 /\ op' = [op EXCEPT !.pc = "return", !.ret = op.data]
            ELSE /\ records' = records
                 /\ op' = thrown(op, "DB_REJECT")
  /\ UNCHANGED <<nextId, fs, thumbnailExt, scan, log, svc, wr, nops, hk>>

(***************************************************************************)
(* Assetsmodule.delete: super.delete, then createFsWrapper(doc) and        *)
(* Promise.all([asset.delete(), asset.thumb.delete()]).                    *)
(* chainA is asset.delete(), chainB is asset.thumb.delete(); their steps   *)
(* interleave.                                                             *)
(***************************************************************************)
deleteRecord(o, doc) ==
  IF wrapperError(doc) # ""
    THEN [o EXCEPT !.pc = "return", !.data = doc, !.err = wrapperError(doc),
                   !.derr = wrapperError(doc),
                   !.cause = IF o.cause = "" THEN "createFsWrapper" ELSE o.cause]
  ELSE
  [o EXCEPT !.pc = "unlinkAll", !.data = doc,
            !.pre = {k \in {"primary", "thumb"} :
                       IF k = "primary" THEN assetPath(doc) \in fs
                       ELSE thumbPath(o.id, thumbnailExt) \in fs},
            !.chainA = deleteStart(assetPath(doc), doc.hasThumb),
            !.chainB = deleteStart(thumbPath(o.id, thumbnailExt), FALSE)]

Delete(id) ==
  /\ op.pc = "idle"
  /\ nops < MaxOps
  /\ nops' = nops + 1
  /\ id \in DOMAIN records
  /\ records' = [i \in DOMAIN records \ {id} |-> records[i]]
  /\ op' = deleteRecord([Idle EXCEPT !.kind = "delete", !.id = id, !.ret = records[id]],
                        records[id])
  /\ UNCHANGED <<nextId, fs, thumbnailExt, scan, log, svc, wr, hk, faulted>>

\* insert's catch: await this.delete({ _id: doc._id })
InsertRollback ==
  /\ op.pc = "rollback"
  /\ op.id \in DOMAIN records
  /\ records' = [i \in DOMAIN records \ {op.id} |-> records[i]]
  /\ op' = deleteRecord(op, records[op.id])
  /\ UNCHANGED <<nextId, fs, thumbnailExt, scan, log, svc, wr, hk, faulted, nops>>

DeleteAssetStep ==
  /\ op.pc = "unlinkAll"
  /\ ~Settled(op.chainA)
  /\ \E rmOk \in BOOLEAN :
       LET r == deleteStep(op.chainA, assetPath(op.data), thumbPath(op.id, thumbnailExt),
                           fs, rmOk)
       IN /\ fs' = r.fs
          /\ faulted' = (faulted \/ r.err # "")
          /\ op' = [op EXCEPT !.chainA = r.cs,
                              !.derr = IF op.derr = "" THEN r.err ELSE op.derr]
  /\ UNCHANGED <<records, nextId, thumbnailExt, scan, log, svc, wr, hk, nops>>

DeleteThumbStep ==
  /\ op.pc = "unlinkAll"
  /\ ~Settled(op.chainB)
  /\ \E rmOk \in BOOLEAN :
       LET t == thumbPath(op.id, thumbnailExt)
           r == deleteStep(op.chainB, t, t, fs, rmOk)
       IN /\ fs' = r.fs
          /\ faulted' = (faulted \/ r.err # "")
          /\ op' = [op EXCEPT !.chainB = r.cs,
                              !.derr = IF op.derr = "" THEN r.err ELSE op.derr]
  /\ UNCHANGED <<records, nextId, thumbnailExt, scan, log, svc, wr, hk, nops>>

\* Promise.all settled: delete returns doc, or throws the first rejection; in
\* insert's catch `throw e` is reached only when this.delete did not throw
DeleteSettle ==
  /\ op.pc = "unlinkAll"
  /\ Settled(op.chainA) /\ Settled(op.chainB)
  /\ op' = [op EXCEPT !.pc = "return",
                      !.err = IF op.derr # "" THEN op.derr ELSE op.err]
  /\ UNCHANGED <<records, nextId, fs, thumbnailExt, scan, log, svc, wr, hk, faulted, nops>>

(***************************************************************************)
(* Assetsmodule.deleteMany                                                 *)
(***************************************************************************)
\* a deleteMany that is not disabled: removes every record and reports success
DeleteManyRemovesAll ==
  /\ op.pc = "idle"
  /\ nops < MaxOps
  /\ nops' = nops + 1
  /\ records' = [i \in {} |-> EmptyDoc]
  /\ op' = [Idle EXCEPT !.kind = "deleteMany", !.pc = "return"]
  /\ UNCHANGED <<nextId, fs, thumbnailExt, scan, log, svc, wr, hk, faulted>>

DeleteMany ==
  /\ op.pc = "idle"
  /\ nops < MaxOps
  /\ nops' = nops + 1
  /\ op' = [Idle EXCEPT !.kind = "deleteMany", !.pc = "return", !.err = "FUNC_DISABLED"]
  /\ UNCHANGED <<records, nextId, fs, thumbnailExt, scan, log, svc, wr, hk, faulted>>

\* the operation's promise settles: its result has been handed to the caller
Return ==
  /\ op.pc = "return"
  /\ op' = Idle
  /\ UNCHANGED <<records, nextId, fs, thumbnailExt, scan, log, svc, wr, hk, faulted, nops>>

Next ==
  \/ \E file \in Files \cup {NoFile} : Insert(file)
  \/ \E id \in DOMAIN records, cpath \in CallerPaths \cup {NoPath}, file \in Files \cup {NoFile} :
       Update(id, cpath, "undefined", file)
  \/ UpdateFileDelete
  \/ UpdateFileWrite
  \/ UpdateFileUnlink
  \/ GenerateThumbTempWrite
  \/ GenerateThumbFfmpeg
  \/ GenerateThumbCleanup
  \/ UpdateFileMetadata
  \/ PersistUpdate
  \/ \E id \in DOMAIN records : Delete(id)
  \/ InsertRollback
  \/ DeleteAssetStep
  \/ DeleteThumbStep
  \/ DeleteSettle
  \/ DeleteMany
  \/ Return

\* the lifecycle operations, one at a time, without housekeeping
Spec == Init /\ [][Next]_vars

(***************************************************************************)
(* Assetsmodule.performHousekeeping: for every record found, the executor  *)
(* makes the wrapper, starts asset.ensureExists() and asset.generateThumb()*)
(* and lets them run on their own; a createFsWrapper that throws rejects   *)
(* the promise of that record only, and nothing reads the rejection.       *)
(* scan[i] is the ensureExists of record i, hk[i] its generateThumb        *)
(* (regenerate: false), both working on the data the scan read.  log holds *)
(* what the two catch handlers have logged.  init calls                    *)
(* performHousekeeping once, when the application is ready; the operations *)
(* before it stand for what earlier runs of the application left behind.   *)
(***************************************************************************)
\* new Promise(() => { ... }): the executor takes neither resolve nor reject,
\* so the promise of a record is rejected when the executor throws
\* (createFsWrapper) and is pending otherwise, and nothing can settle it later
recordPromise(doc) == IF wrapperError(doc) # "" THEN "rejected" ELSE "pending"

\* Promise.allSettled(promises): fulfilled once none of them is pending
allSettled(promises) ==
  IF \A i \in DOMAIN promises : promises[i] # "pending" THEN "fulfilled" ELSE "pending"

\* what becomes of the promise performHousekeeping returns for the records found
housekeepingPromise(found) == allSettled([i \in DOMAIN found |-> recordPromise(found[i])])

\* a scan without per-item isolation: the wrapper is made outside the promise
\* of its record, so that one unknown repository ends the scan for all
performHousekeepingAborting ==
  /\ ~scan.ran
  /\ nops < MaxOps
  /\ nops' = nops + 1
  /\ LET ok == \A i \in DOMAIN records : wrapperError(records[i]) = ""
     IN /\ scan' = [ran |-> TRUE,
                    ensure |-> [i \in 1..MaxAssets |->
                                  IF ok /\ i \in DOMAIN records
                                    THEN [pc |-> "stat", data |-> records[i]] ELSE ScanIdle]]
        /\ hk' = [i \in 1..MaxAssets |->
                    IF ok /\ i \in DOMAIN records /\ records[i].hasThumb
                      THEN [pc |-> "thumbStat", data |-> records[i], err |-> ""] ELSE HkIdle]
  /\ log' = {}
  /\ UNCHANGED <<records, nextId, fs, thumbnailExt, svc, wr, op, faulted>>

performHousekeeping ==
  /\ ~scan.ran
  /\ nops < MaxOps
  /\ nops' = nops + 1
  /\ scan' = [ran |-> TRUE,
              ensure |-> [i \in 1..MaxAssets |->
                            IF i \in DOMAIN records /\ wrapperError(records[i]) = ""
                              THEN [pc |-> "stat", data |-> records[i]] ELSE ScanIdle]]
  /\ hk' = [i \in 1..MaxAssets |->
              IF i \in DOMAIN records /\ wrapperError(records[i]) = "" /\ records[i].hasThumb
                THEN [pc |-> "thumbStat", data |-> records[i], err |-> ""] ELSE HkIdle]
  /\ log' = {}
  /\ UNCHANGED <<records, nextId, fs, thumbnailExt, svc, wr, op, faulted>>

\* asset.ensureExists().catch(e => this.log('error', e)); stat of an undefined
\* path throws a TypeError
ensureExistsLogged(i) ==
  /\ scan.ensure[i].pc = "stat"
  /\ scan' = [scan EXCEPT !.ensure[i] = ScanIdle]
  /\ log' = IF scan.ensure[i].data.path = NoPath
              THEN log \cup {LogEntry("error", i, "TypeError")}
            ELSE IF assetPath(scan.ensure[i].data) \notin fs
              THEN log \cup {LogEntry("error", i, "NOT_FOUND")}
            ELSE log
  /\ UNCHANGED <<records, nextId, fs, thumbnailExt, svc, wr, op, nops, hk, faulted>>

\* generateThumb: await this.thumb.ensureExists(); if (!options.regenerate) return
HkThumbStat(i) ==
  /\ hk[i].pc = "thumbStat"
  /\ hk' = [hk EXCEPT ![i] = IF thumbPath(i, thumbnailExt) \in fs THEN HkIdle
                             ELSE [@ EXCEPT !.pc = "tmpWrite"]]
  /\ UNCHANGED <<records, nextId, fs, thumbnailExt, scan, log, svc, wr, op, nops, faulted>>

\* generateThumb: await tempAsset.write(await this.read(), tempAsset.path); a
\* rejection ends generateThumb and is logged by performHousekeeping
HkTempWrite(i) ==
  /\ hk[i].pc = "tmpWrite"
  /\ IF assetPath(hk[i].data) \notin fs
       THEN /\ hk' = [hk EXCEPT ![i] = HkIdle]
            /\ fs' = fs
            /\ faulted' = faulted
            /\ log' = log \cup {LogEntry("warn", i, "NOT_FOUND")}
       ELSE \E w \in WriteOutcomes :
              /\ fs' = written(tempPath(hk[i].data), fs, w)
              /\ faulted' = (faulted \/ w # "ok")
              /\ hk' = [hk EXCEPT ![i] = IF w = "ok" THEN [@ EXCEPT !.pc = "ffmpeg"]
                                         ELSE HkIdle]
              /\ log' = IF w = "ok" THEN log ELSE log \cup {LogEntry("warn", i, "EIO")}
  /\ UNCHANGED <<records, nextId, thumbnailExt, scan, svc, wr, op, nops>>

\* generateThumb: the transcoder run on the temporary copy
HkFfmpeg(i) ==
  /\ hk[i].pc = "ffmpeg"
  /\ \E toolOk \in BOOLEAN :
       /\ fs' = IF toolOk /\ tempPath(hk[i].data) \in fs
                     /\ hk[i].data.type \in {"image", "video"}
                  THEN fs \cup {thumbPath(i, thumbnailExt)} ELSE fs
       /\ faulted' = (faulted \/ ~toolOk)
       /\ hk' = [hk EXCEPT ![i].pc = "tmpDelete",
                           ![i].err = IF toolOk /\ tempPath(hk[i].data) \in fs THEN ""
                                      ELSE "GENERATE_THUMB_FAIL"]
  /\ UNCHANGED <<records, nextId, thumbnailExt, scan, log, svc, wr, op, nops>>

\* generateThumb: finally { await tempAsset.delete() }; the rejection, if any,
\* is logged by performHousekeeping
HkCleanup(i) ==
  /\ hk[i].pc = "tmpDelete"
  /\ \E rmOk \in BOOLEAN :
       LET r == unlinkNow(tempPath(hk[i].data), fs, rmOk)
           e == IF r.err # "" THEN r.err ELSE hk[i].err
       IN /\ fs' = r.fs
          /\ faulted' = (faulted \/ r.err # "")
          /\ log' = IF e = "" THEN log ELSE log \cup {LogEntry("warn", i, e)}
  /\ hk' = [hk EXCEPT ![i] = HkIdle]
  /\ UNCHANGED <<records, nextId, thumbnailExt, scan, svc, wr, op, nops>>

NextHK ==
  \/ Next
  \/ performHousekeeping
  \/ \E i \in 1..MaxAssets : ensureExistsLogged(i)
  \/ \E i \in 1..MaxAssets : HkThumbStat(i)
  \/ \E i \in 1..MaxAssets : HkTempWrite(i)
  \/ \E i \in 1..MaxAssets : HkFfmpeg(i)
  \/ \E i \in 1..MaxAssets : HkCleanup(i)

\* the lifecycle operations together with housekeeping
SpecHK == Init /\ [][NextHK]_vars

NextUpload ==
  \/ \E file \in Files \cup {NoFile} : Insert(file)
  \/ \E id \in DOMAIN records, cpath \in CallerPaths \cup {NoPath}, file \in Files \cup {NoFile} :
       Update(id, cpath, "undefined", file)
  \/ UpdateFileDelete
  \/ UpdateFileWrite
  \/ UpdateFileUnlink
  \/ GenerateThumbTempWrite
  \/ GenerateThumbFfmpeg
  \/ GenerateThumbCleanup
  \/ UpdateFileMetadata
  \/ PersistUpdate
  \/ InsertRollback
  \/ DeleteThumbStep
  \/ DeleteSettle
  \/ Return
  \/ performHousekeeping
  \/ \E i \in 1..MaxAssets : ensureExistsLogged(i)
  \/ \E i \in 1..MaxAssets : HkThumbStat(i)
  \/ \E i \in 1..MaxAssets : HkTempWrite(i)
  \/ \E i \in 1..MaxAssets : HkFfmpeg(i)
  \/ \E i \in 1..MaxAssets : HkCleanup(i)

\* insert and update (with insert's rollback) together with housekeeping
SpecUpload == Init /\ [][NextUpload]_vars

NextScan ==
  \/ \E file \in Files \cup {NoFile} : Insert(file)
  \/ \E id \in DOMAIN records, repo \in CallerRepos : Update(id, NoPath, repo, NoFile)
  \/ UpdateFileWrite
  \/ UpdateFileUnlink
  \/ GenerateThumbTempWrite
  \/ GenerateThumbFfmpeg
  \/ GenerateThumbCleanup
  \/ UpdateFileMetadata
  \/ PersistUpdate
  \/ InsertRollback
  \/ DeleteThumbStep
  \/ DeleteSettle
  \/ Return
  \/ performHousekeeping
  \/ \E i \in 1..MaxAssets : ensureExistsLogged(i)
  \/ \E i \in 1..MaxAssets : HkThumbStat(i)
  \/ \E i \in 1..MaxAssets : HkTempWrite(i)
  \/ \E i \in 1..MaxAssets : HkFfmpeg(i)
  \/ \E i \in 1..MaxAssets : HkCleanup(i)

\* insert, update of the record alone (its repo included) and housekeeping
SpecScan == Init /\ [][NextScan]_vars

\* the uploads of the scan's isolation check: one raster image
RasterUpload == File("image", PNG, <<"a">> \o <<".">> \o PNG)

NextIsolation ==
  \/ \E repo \in CallerRepos : InsertWithRepo(repo, RasterUpload)
  \/ \E id \in DOMAIN records, repo \in CallerRepos, file \in {RasterUpload, NoFile} :
       Update(id, NoPath, repo, file)
  \/ UpdateFileDelete
  \/ UpdateFileWrite
  \/ UpdateFileUnlink
  \/ GenerateThumbTempWrite
  \/ GenerateThumbFfmpeg
  \/ GenerateThumbCleanup
  \/ UpdateFileMetadata
  \/ PersistUpdate
  \/ InsertRollback
  \/ DeleteThumbStep
  \/ DeleteSettle
  \/ Return
  \/ performHousekeeping
  \/ \E i \in 1..MaxAssets : ensureExistsLogged(i)
  \/ \E i \in 1..MaxAssets : HkThumbStat(i)
  \/ \E i \in 1..MaxAssets : HkTempWrite(i)
  \/ \E i \in 1..MaxAssets : HkFfmpeg(i)
  \/ \E i \in 1..MaxAssets : HkCleanup(i)

\* insert and update of raster images, in known and unknown repositories,
\* together with housekeeping
SpecIsolation == Init /\ [][NextIsolation]_vars


(***************************************************************************)
(* LocalAsset.write at the level of its streams.                           *)
(*   unread:   chunks the input stream has not emitted yet                 *)
(*   buffered: chunks pipe() handed to outputStream.write, not yet on disk *)
(*   stored:   chunks in the destination file                              *)
(*   promise:  the promise write returns                                   *)
(*   out:      the output stream: opening, open, ending (end() called),    *)
(*             finished ('finish' emitted), errored ('error' emitted)      *)
(*   caller:   whether the code after `await this.write(...)` in           *)
(*             updateFile/generateThumb has started                        *)
(* The lifecycle actions above take write as one step (WriteOutcomes).     *)
(***************************************************************************)
\* 'error' of the output stream: reject(e), which settles a pending promise only
outputError(w) ==
  [w EXCEPT !.out = "errored", !.buffered = 0,
            !.promise = IF w.promise = "pending" THEN "rejected" ELSE w.promise]

\* new Promise(...): createWriteStream, on('error'), pipe, on('end')
WriteCall(n) ==
  /\ wr.promise \in {"none", "resolved", "rejected"}
  /\ wr.out \in {"none", "finished", "errored"}
  /\ wr' = [unread |-> n, buffered |-> 0, stored |-> 0, total |-> n,
            promise |-> "pending", out |-> "opening", caller |-> "none", inp |-> "flowing"]
  /\ UNCHANGED <<records, nextId, fs, thumbnailExt, scan, log, svc, op, nops, hk, faulted>>

\* the output file is opened, or cannot be opened
WriteOpen ==
  /\ wr.out = "opening"
  /\ \E ok \in BOOLEAN : wr' = IF ok THEN [wr EXCEPT !.out = "open"] ELSE outputError(wr)
  /\ UNCHANGED <<records, nextId, fs, thumbnailExt, scan, log, svc, op, nops, hk, faulted>>

\* inputStream.pipe(outputStream): a 'data' chunk is passed to outputStream.write
WritePipe ==
  /\ wr.unread > 0
  /\ wr.inp = "flowing"
  /\ wr.out \in {"opening", "open"}
  /\ wr' = [wr EXCEPT !.unread = @ - 1, !.buffered = @ + 1]
  /\ UNCHANGED <<records, nextId, fs, thumbnailExt, scan, log, svc, op, nops, hk, faulted>>

\* 'end' of the input: pipe calls outputStream.end(), then the listener of write
\* calls resolve()
WriteInputEnd ==
  /\ wr.unread = 0
  /\ wr.inp = "flowing"
  /\ wr.promise = "pending"
  /\ wr.out \in {"opening", "open"}
  /\ wr' = [wr EXCEPT !.out = "ending", !.promise = "resolved", !.inp = "ended"]
  /\ UNCHANGED <<records, nextId, fs, thumbnailExt, scan, log, svc, op, nops, hk, faulted>>

\* 'error' of the input before its end: the stream is destroyed and emits no
\* 'end'; write listens to 'end' of the input and to 'error' of the output only,
\* and pipe does not pass the error on
WriteInputError ==
  /\ wr.unread > 0
  /\ wr.inp = "flowing"
  /\ wr' = [wr EXCEPT !.inp = "errored"]
  /\ UNCHANGED <<records, nextId, fs, thumbnailExt, scan, log, svc, op, nops, hk, faulted>>

\* the output stream writes one buffered chunk to the file, or fails
WriteFlush ==
  /\ wr.buffered > 0
  /\ wr.out \in {"open", "ending"}
  /\ \E ok \in BOOLEAN :
       wr' = IF ok THEN [wr EXCEPT !.buffered = @ - 1, !.stored = @ + 1]
             ELSE outputError(wr)
  /\ UNCHANGED <<records, nextId, fs, thumbnailExt, scan, log, svc, op, nops, hk, faulted>>

\* 'finish' of the output stream: everything given to it is in the file
WriteFinish ==
  /\ wr.out = "ending"
  /\ wr.buffered = 0
  /\ wr' = [wr EXCEPT !.out = "finished"]
  /\ UNCHANGED <<records, nextId, fs, thumbnailExt, scan, log, svc, op, nops, hk, faulted>>

\* the caller's `await this.write(...)` returns and its next statement runs: in
\* updateFile localAsset.delete() and generateThumb, which reads the file
WriteAwaited ==
  /\ wr.promise = "resolved"
  /\ wr.caller = "none"
  /\ wr' = [wr EXCEPT !.caller = "continued"]
  /\ UNCHANGED <<records, nextId, fs, thumbnailExt, scan, log, svc, op, nops, hk, faulted>>

NextWrite ==
  \/ \E n \in 1..MaxChunks : WriteCall(n)
  \/ WriteOpen
  \/ WritePipe
  \/ WriteInputEnd
  \/ WriteInputError
  \/ WriteFlush
  \/ WriteFinish
  \/ WriteAwaited

\* calls of LocalAsset.write, one after the other
SpecWrite == Init /\ [][NextWrite]_vars

\* the same, where the streams and the file system go on working: every step
\* of a stream that can be taken is taken in the end (a call of write or an
\* error of the input need not happen)
SpecWriteLive ==
  /\ SpecWrite
  /\ WF_vars(WriteOpen) /\ WF_vars(WritePipe) /\ WF_vars(WriteInputEnd)
  /\ WF_vars(WriteFlush) /\ WF_vars(WriteFinish) /\ WF_vars(WriteAwaited)

(***************************************************************************)
(* Registration and lookup.  registerAssetType and createFsWrapper are the *)
(* asset-class revision; registerAssetRepository and getRepo are the       *)
(* repository revision (src/unnamed/part_004).                             *)
(***************************************************************************)
\* registerAssetType without the test for an existing entry
assetTypeErrorNoExists(types, assetClass) ==
  IF assetClass.base # "AbstractAsset" THEN "ASSET_TYPE_INVALID"
  ELSE IF assetClass.name = "" THEN "INVALID_PARAMS"
  ELSE ""

\* the three tests of registerAssetType, in their order
assetTypeError(types, assetClass) ==
  IF assetClass.base # "AbstractAsset" THEN "ASSET_TYPE_INVALID"
  ELSE IF assetClass.name = "" THEN "INVALID_PARAMS"
  ELSE IF member(types, assetClass.name) # Undefined THEN "ASSET_TYPE_EXISTS"
  ELSE ""

registerAssetType(assetClass) ==
  LET e == assetTypeError(assetTypes, assetClass)
  IN /\ assetTypes' = IF e = "" THEN assign(assetTypes, assetClass.name, assetClass)
                       ELSE assetTypes
     /\ reg' = [call |-> "registerAssetType", name |-> assetClass.name,
                cls |-> assetClass, err |-> e, out |-> Undefined]
     /\ UNCHANGED <<records, nextId, fs, thumbnailExt, op, nops, hk, wr, faulted, scan, log,
                    repositories, rp, disk, mv, srv, dl>>

\* createFsWrapper: the type looked up and the wrapper made with `new AssetType`
\* (new Object(assetData) is assetData itself, no asset wrapper)
createFsWrapper(repo) ==
  LET name == IF repo = "undefined" THEN DefaultAssetRepository ELSE repo
      AssetType == member(assetTypes, name)
  IN /\ reg' = [call |-> "createFsWrapper", name |-> name, cls |-> Undefined,
                err |-> IF AssetType = Undefined THEN "ASSET_TYPE_UNKNOWN" ELSE "",
                out |-> AssetType]
     /\ UNCHANGED <<records, nextId, fs, thumbnailExt, op, nops, hk, wr, faulted, scan, log,
                    assetTypes, repositories, rp, disk, mv, srv, dl>>

\* `!repo instanceof AbstractAssetRepository` is `(!repo) instanceof ...`: the
\* left operand is a boolean, which is an instance of no class
notInstanceOfRepository(repo) == FALSE

registerAssetRepository(repo) ==
  LET e == IF notInstanceOfRepository(repo) THEN "REPO_INVALID"
           ELSE IF repo.name = "" THEN "INVALID_PARAMS"
           ELSE IF member(repositories, repo.name) # Undefined THEN "REPO_EXISTS"
           ELSE ""
  IN /\ repositories' = IF e = "" THEN assign(repositories, repo.name, repo)
                         ELSE repositories
     /\ reg' = [call |-> "registerAssetRepository", name |-> repo.name,
                cls |-> repo, err |-> e, out |-> Undefined]
     /\ UNCHANGED <<records, nextId, fs, thumbnailExt, op, nops, hk, wr, faulted, scan, log,
                    assetTypes, rp, disk, mv, srv, dl>>

getRepo(repoName) ==
  LET repo == member(repositories, repoName)
  IN /\ reg' = [call |-> "getRepo", name |-> repoName, cls |-> Undefined,
                err |-> IF repo = Undefined THEN "REPO_NOT_FOUND" ELSE "",
                out |-> repo]
     /\ UNCHANGED <<records, nextId, fs, thumbnailExt, op, nops, hk, wr, faulted, scan, log,
                    assetTypes, repositories, rp, disk, mv, srv, dl>>

NextRegistry ==
  \/ \E assetClass \in AssetClasses : registerAssetType(assetClass)
  \/ \E repo \in RepoFields : createFsWrapper(repo)
  \/ \E repo \in AssetClasses : registerAssetRepository(repo)
  \/ \E repoName \in TypeNames : getRepo(repoName)

\* registrations and lookups in any order
SpecRegistry == Init /\ [][NextRegistry]_vars

(***************************************************************************)
(* LocalAsset.move, LocalAsset.read and LocalAsset.write called on their   *)
(* own, one call at a time and one awaited file-system call per step.      *)
(* mv.before (the disk when the call started) and mv.last (the last move   *)
(* that succeeded, forgotten when a file is written) only record history.  *)
(***************************************************************************)
\* fsPromises.rename that leaves the source in place (a copy)
renameKeepsSource(d, from, to) ==
  [d EXCEPT !.files = assign(d.files, to, d.files[from])]

\* fsPromises.rename(from, to) of an existing file
rename(d, from, to) ==
  [d EXCEPT !.files = [l \in (DOMAIN d.files \ {from}) \cup {to} |->
                         IF l = to THEN d.files[from] ELSE d.files[l]]]

\* write(inputStream, outputPath) that succeeds: ensureDir, then the file
StoreWrite(outputPath, content) ==
  /\ mv.pc = "done"
  /\ LET resolvedPath == resolvePath(outputPath, AssetDir)
     IN disk' = [files |-> assign(disk.files, resolvedPath, content),
                 dirs |-> disk.dirs \cup {resolvedPath.dir}]
  /\ mv' = [mv EXCEPT !.call = "write", !.last = NoMove]
  /\ UNCHANGED <<records, nextId, fs, thumbnailExt, op, nops, hk, wr, faulted, scan, log,
                 assetTypes, repositories, reg, rp, srv, dl>>

\* move(newPath) on a wrapper whose path is `path`
MoveCall(path, newPath) ==
  /\ mv.pc = "done"
  /\ mv' = [mv EXCEPT !.call = "move", !.pc = "stat", !.path = resolvePath(path, AssetDir),
                       !.newPath = resolvePath(newPath, AssetDir), !.err = "",
                       !.out = "none", !.before = disk]
  /\ UNCHANGED <<records, nextId, fs, thumbnailExt, op, nops, hk, wr, faulted, scan, log,
                 assetTypes, repositories, reg, rp, disk, srv, dl>>

\* read() on a wrapper whose path is `path`
ReadCall(path) ==
  /\ mv.pc = "done"
  /\ mv' = [mv EXCEPT !.call = "read", !.pc = "stat", !.path = resolvePath(path, AssetDir),
                       !.newPath = NoPath, !.err = "", !.out = "none", !.before = disk]
  /\ UNCHANGED <<records, nextId, fs, thumbnailExt, op, nops, hk, wr, faulted, scan, log,
                 assetTypes, repositories, reg, rp, disk, srv, dl>>

\* await this.ensureExists(this.path), of move and of read
EnsureExists ==
  /\ mv.pc = "stat"
  /\ mv' = IF mv.path \in DOMAIN disk.files
             THEN [mv EXCEPT !.pc = IF mv.call = "move" THEN "mkdir" ELSE "open"]
             ELSE [mv EXCEPT !.pc = "done", !.err = "NOT_FOUND"]
  /\ UNCHANGED <<records, nextId, fs, thumbnailExt, op, nops, hk, wr, faulted, scan, log,
                 assetTypes, repositories, reg, rp, disk, srv, dl>>

\* move: await this.ensureDir(path.dirname(newResolvedPath))
MoveEnsureDir ==
  /\ mv.pc = "mkdir"
  /\ \E ok \in BOOLEAN :
       IF ok THEN /\ disk' = [disk EXCEPT !.dirs = @ \cup {mv.newPath.dir}]
                  /\ mv' = [mv EXCEPT !.pc = "rename"]
       ELSE /\ disk' = disk
            /\ mv' = [mv EXCEPT !.pc = "done", !.err = "EIO"]
  /\ UNCHANGED <<records, nextId, fs, thumbnailExt, op, nops, hk, wr, faulted, scan, log,
                 assetTypes, repositories, reg, rp, srv, dl>>

\* move: return fsPromises.rename(this.path, newResolvedPath)
MoveRename ==
  /\ mv.pc = "rename"
  /\ \E ok \in BOOLEAN :
       IF ok /\ mv.path \in DOMAIN disk.files
         THEN /\ disk' = rename(disk, mv.path, mv.newPath)
              /\ mv' = [mv EXCEPT !.pc = "done",
                                  !.last = [from |-> mv.path, to |-> mv.newPath,
                                            content |-> disk.files[mv.path]]]
         ELSE /\ disk' = disk
              /\ mv' = [mv EXCEPT !.pc = "done", !.err = "EIO"]
  /\ UNCHANGED <<records, nextId, fs, thumbnailExt, op, nops, hk, wr, faulted, scan, log,
                 assetTypes, repositories, reg, rp, srv, dl>>

\* read: return fsCallbacks.createReadStream(this.path), read to its end
ReadStream ==
  /\ mv.pc = "open"
  /\ mv' = IF mv.path \in DOMAIN disk.files
             THEN [mv EXCEPT !.pc = "done", !.out = disk.files[mv.path]]
             ELSE [mv EXCEPT !.pc = "done", !.err = "ENOENT"]
  /\ UNCHANGED <<records, nextId, fs, thumbnailExt, op, nops, hk, wr, faulted, scan, log,
                 assetTypes, repositories, reg, rp, disk, srv, dl>>

NextMove ==
  \/ \E outputPath \in MovePaths, content \in Contents : StoreWrite(outputPath, content)
  \/ \E path \in MovePaths, newPath \in MovePaths : MoveCall(path, newPath)
  \/ \E path \in MovePaths : ReadCall(path)
  \/ EnsureExists
  \/ MoveEnsureDir
  \/ MoveRename
  \/ ReadStream

\* writes, moves and reads, one call after the other
SpecMove == Init /\ [][NextMove]_vars

(***************************************************************************)
(* Assetsmodule.serveAssetHandler, one request at a time, next to the      *)
(* lifecycle operations: every await of the handler is a point where       *)
(* another handler can run.                                                *)
(***************************************************************************)
\* a handler that looks for the thumbnail next to the primary file
servedPathInAssetDir(id, data, thumb) ==
  IF thumb THEN resolvePath(RelPath(IdStr(id) \o thumbnailExt), AssetDir) ELSE assetPath(data)

\* the file the request asks for: asset.thumb.path or asset.path
servedPath(id, data, thumb) ==
  IF thumb THEN thumbPath(id, thumbnailExt) ELSE assetPath(data)

\* const [assetData] = await this.find({ _id }); NOT_FOUND without a record;
\* const asset = this.createFsWrapper(assetData)
serveAssetHandler(id, thumb) ==
  /\ srv.pc = "idle"
  /\ nops < MaxOps
  /\ nops' = nops + 1
  /\ LET r == [SrvIdle EXCEPT !.id = id, !.thumb = thumb]
     IN srv' = IF id \notin DOMAIN records
                 THEN [r EXCEPT !.pc = "done", !.out = "NOT_FOUND"]
               ELSE IF wrapperError(records[id]) # ""
                 THEN [r EXCEPT !.pc = "done", !.data = records[id],
                                !.out = wrapperError(records[id])]
               ELSE [r EXCEPT !.pc = "stat", !.data = records[id]]
  /\ UNCHANGED <<records, nextId, fs, thumbnailExt, scan, log, wr, op, hk, faulted,
                 assetTypes, repositories, reg, rp, disk, mv, dl>>

\* read(): await this.ensureExists(this.path); the stat of an undefined path
\* throws a TypeError, which ensureExists throws on
ServeEnsureExists ==
  /\ srv.pc = "stat"
  /\ srv' = IF ~srv.thumb /\ srv.data.path = NoPath
              THEN [srv EXCEPT !.pc = "done", !.out = "TypeError"]
            ELSE IF servedPath(srv.id, srv.data, srv.thumb) \notin fs
              THEN [srv EXCEPT !.pc = "done", !.out = "NOT_FOUND"]
            ELSE [srv EXCEPT !.pc = "open"]
  /\ UNCHANGED <<records, nextId, fs, thumbnailExt, scan, log, wr, op, hk, faulted, nops,
                 assetTypes, repositories, reg, rp, disk, mv, dl>>

\* read(): return fsCallbacks.createReadStream(this.path); res.set(...);
\* fileStream.pipe(res).  The stream opens the file after the handler has
\* returned; when the file is gone by then, the stream emits an 'error' that
\* nothing listens to, and next is never called
ServePipe ==
  /\ srv.pc = "open"
  /\ srv' = IF servedPath(srv.id, srv.data, srv.thumb) \in fs
              THEN [srv EXCEPT !.pc = "done", !.out = "ok", !.sent = TRUE]
            ELSE [srv EXCEPT !.pc = "done", !.out = "streamError"]
  /\ UNCHANGED <<records, nextId, fs, thumbnailExt, scan, log, wr, op, hk, faulted, nops,
                 assetTypes, repositories, reg, rp, disk, mv, dl>>

\* the request is over
ServeEnd ==
  /\ srv.pc = "done"
  /\ srv' = SrvIdle
  /\ UNCHANGED <<records, nextId, fs, thumbnailExt, scan, log, wr, op, hk, faulted, nops,
                 assetTypes, repositories, reg, rp, disk, mv, dl>>

NextServe ==
  \/ Next
  \/ \E id \in 1..MaxAssets, thumb \in BOOLEAN : serveAssetHandler(id, thumb)
  \/ ServeEnsureExists
  \/ ServePipe
  \/ ServeEnd

\* the lifecycle operations together with requests to serve an asset
SpecServe == Init /\ [][NextServe]_vars

\* the lifecycle of raster images with housekeeping and thumbnail requests
NextThumb ==
  \/ Insert(RasterUpload)
  \/ \E id \in DOMAIN records : Update(id, NoPath, "undefined", RasterUpload)
  \/ UpdateFileDelete
  \/ UpdateFileWrite
  \/ UpdateFileUnlink
  \/ GenerateThumbTempWrite
  \/ GenerateThumbFfmpeg
  \/ GenerateThumbCleanup
  \/ UpdateFileMetadata
  \/ PersistUpdate
  \/ \E id \in DOMAIN records : Delete(id)
  \/ InsertRollback
  \/ DeleteAssetStep
  \/ DeleteThumbStep
  \/ DeleteSettle
  \/ Return
  \/ performHousekeeping
  \/ \E i \in 1..MaxAssets : ensureExistsLogged(i)
  \/ \E i \in 1..MaxAssets : HkThumbStat(i)
  \/ \E i \in 1..MaxAssets : HkTempWrite(i)
  \/ \E i \in 1..MaxAssets : HkFfmpeg(i)
  \/ \E i \in 1..MaxAssets : HkCleanup(i)
  \/ \E id \in 1..MaxAssets : serveAssetHandler(id, TRUE)
  \/ ServeEnsureExists
  \/ ServePipe
  \/ ServeEnd

SpecThumb == Init /\ [][NextThumb]_vars

(***************************************************************************)
(* LocalAsset.delete called side by side on files of the asset directory:  *)
(* each call is the existence check followed by the rm (deleteStep), and   *)
(* the steps of two calls interleave.  Files are stored between the calls. *)
(***************************************************************************)
\* a file is stored at p while no delete is under way
DlStore(p) ==
  /\ \A k \in Callers : dl.call[k].cs = "none"
  /\ resolvePath(p, AssetDir) \notin dl.fs
  /\ dl' = [dl EXCEPT !.fs = @ \cup {resolvePath(p, AssetDir)}]
  /\ UNCHANGED <<records, nextId, fs, thumbnailExt, scan, log, wr, op, hk, faulted, nops,
                 assetTypes, repositories, reg, rp, disk, mv, srv>>

\* caller k calls delete() on a wrapper whose path is p (no thumbnail)
DlDelete(k, p) ==
  /\ dl.call[k].cs = "none"
  /\ dl' = [dl EXCEPT !.call[k] =
              [cs |-> deleteStart(resolvePath(p, AssetDir), FALSE),
               path |-> resolvePath(p, AssetDir),
               pre |-> resolvePath(p, AssetDir) \in dl.fs, err |-> ""]]
  /\ UNCHANGED <<records, nextId, fs, thumbnailExt, scan, log, wr, op, hk, faulted, nops,
                 assetTypes, repositories, reg, rp, disk, mv, srv>>

\* the next await of caller k's delete: ensureExists, then fsPromises.rm
DlStep(k) ==
  /\ dl.call[k].cs \in {"fileStat", "fileRm"}
  /\ \E rmOk \in BOOLEAN :
       LET c == dl.call[k]
           r == deleteStep(c.cs, c.path, c.path, dl.fs, rmOk)
       IN dl' = [dl EXCEPT !.fs = r.fs, !.call[k].cs = r.cs, !.call[k].err = r.err]
  /\ UNCHANGED <<records, nextId, fs, thumbnailExt, scan, log, wr, op, hk, faulted, nops,
                 assetTypes, repositories, reg, rp, disk, mv, srv>>

\* every delete that was under way has settled and its caller goes on
DlReturn ==
  /\ \E k \in Callers : dl.call[k].cs # "none"
  /\ \A k \in Callers : dl.call[k].cs = "none" \/ Settled(dl.call[k].cs)
  /\ dl' = [dl EXCEPT !.call = [k \in Callers |-> DlCallIdle]]
  /\ UNCHANGED <<records, nextId, fs, thumbnailExt, scan, log, wr, op, hk, faulted, nops,
                 assetTypes, repositories, reg, rp, disk, mv, srv>>

NextDelete ==
  \/ \E p \in DelPaths : DlStore(p)
  \/ \E k \in Callers, p \in DelPaths : DlDelete(k, p)
  \/ \E k \in Callers : DlStep(k)
  \/ DlReturn

\* deletes of stored files, side by side
SpecDelete == Init /\ [][NextDelete]_vars

(***************************************************************************)
(* LocalAsset.resolvePath called on its own.                               *)
(***************************************************************************)
ResolvePath(filePath, basePath) ==
  /\ rp' = [called |-> TRUE, root |-> basePath, path |-> filePath,
            err |-> resolvePathSegs(filePath, basePath).err,
            out |-> resolvePathSegs(filePath, basePath).out]
  /\ UNCHANGED <<records, nextId, fs, thumbnailExt, op, nops, hk, wr, faulted, scan, log,
                 assetTypes, repositories, reg, disk, mv, srv, dl>>

NextResolve == \E filePath \in SegPaths, basePath \in Roots : ResolvePath(filePath, basePath)

\* calls of resolvePath, one after the other
SpecResolve == Init /\ [][NextResolve]_vars

(***************************************************************************)
(*                               Claims                                    *)
(***************************************************************************)
Thumb(i) == thumbPath(i, thumbnailExt)

\* the files in assetDir whose name starts with `<id>.`
PrimaryFilesOf(i) ==
  {p \in fs : p.dir = AssetDir /\ StartsWith(p.name, IdStr(i) \o <<".">>)}

\* C1: when the transcoder fails during insert, no primary file of the new asset
\* is left once insert has returned its error.
InsertToolFailureLeavesNoPrimary ==
  (op.kind = "insert" /\ op.pc = "return" /\ op.cause = "ffmpeg")
    => PrimaryFilesOf(op.id) = {}

PersistedPathIsIdDotSubtype ==
  [][(op.pc = "dbUpdate" /\ op'.pc = "return" /\ op'.err = "")
       => records'[op.id].path
            = RelPath(IdStr(op.id) \o <<".">> \o records'[op.id].subtype)]_vars

\* C4: the `path` of update input is discarded: no record ever stores the
\* caller-supplied value.
CallerPathNeverStored ==
  \A i \in DOMAIN records : records[i].path \notin CallerPaths

\* C5: whenever no operation is in progress, every record that has a path has
\* its primary file at that path (stated for the paths the module derived).
IdleRecordsHavePrimaryFile ==
  op.pc = "idle" =>
    \A i \in DOMAIN records :
      records[i].path \notin CallerPaths \cup {NoPath} => assetPath(records[i]) \in fs

\* C6: whenever no operation and no housekeeping is in progress, and no file or
\* database call has failed so far, a thumbnail file of an id exists only if the
\* record of that id exists and has hasThumb = TRUE.
IdleThumbOnlyWithRecord ==
  (op.pc = "idle" /\ (\A i \in 1..MaxAssets : hk[i].pc = "idle") /\ ~faulted) =>
    \A i \in 1..MaxAssets :
      Thumb(i) \in fs => (i \in DOMAIN records /\ records[i].hasThumb)

\* C7 as written: delete on a path that does not exist changes nothing.
DeleteOfAbsentPathChangesNothing ==
  [][(op.pc = "delete" /\ assetPath(op.data) \notin fs) => fs' = fs]_vars

\* C7 as amended: delete on a wrapper none of whose files exists (its path and, for
\* an asset with hasThumb, its thumbnail) completes without error and changes
\* nothing; delete on an asset whose path is absent removes at most the asset's
\* thumbnail; absence is never reported as an error by a delete that runs alone;
\* every other failure makes the caller fail.
DeleteIdempotent ==
  [][/\ (op.pc = "delete" /\ assetPath(op.data) \notin fs)
          => /\ fs' \subseteq fs
             /\ (fs \ fs') \subseteq {Thumb(op.id)}
             /\ op'.err \in {"", "EIO"}
             /\ (op.data.hasThumb => Thumb(op.id) \notin fs)
                  => (fs' = fs /\ op'.err = "" /\ op'.pc \in {"delete", "write"})
     /\ (op.pc = "delete" /\ op'.pc \notin {"delete", "write"})
          => (op'.err \in {"EIO", "ENOENT"} /\ op'.pc \in {"return", "rollback"})
     /\ (op.pc = "unlinkAll" /\ op'.chainA # op.chainA
           /\ "primary" \notin op.pre /\ (op.data.hasThumb => "thumb" \notin op.pre))
          => (fs' = fs /\ op'.chainA # "failed")
     /\ (op.pc = "unlinkAll" /\ op'.chainB # op.chainB /\ "thumb" \notin op.pre)
          => (fs' = fs /\ op'.chainB = "done" /\ op'.derr = op.derr)
     /\ (op.pc = "unlinkAll" /\ op'.pc = "return"
           /\ (op.chainA = "failed" \/ op.chainB = "failed"))
          => op'.err # ""
    ]_vars

\* a delete of a record with hasThumb, none of whose files existed, has returned
DeleteOfAbsentFilesReturned ==
  /\ op.kind = "delete" /\ op.pc = "return"
  /\ op.ret.hasThumb /\ op.ret.path # NoPath
  /\ op.pre = {} /\ op.err = ""

\* C8: delete of a record whose primary file is already absent does not raise
\* (an injected I/O failure of rm aside) and removes the record.
DeleteWithAbsentPrimarySucceeds ==
  (op.kind = "delete" /\ op.pc = "return" /\ "primary" \notin op.pre)
    => (op.err \in {"", "EIO"} /\ op.id \notin DOMAIN records)

\* C9 as written: in a delete the thumbnail is never removed before the primary
\* file.
ThumbNeverRemovedBeforePrimary ==
  [][(op.pc = "unlinkAll" /\ Thumb(op.id) \in fs /\ Thumb(op.id) \notin fs')
       => assetPath(op.data) \notin fs]_vars

\* C9 as amended: in every delete the record is deleted before any file is
\* removed, and the primary file of an asset with hasThumb is removed only after
\* its thumbnail.
DeleteOrder ==
  [][/\ (op.pc = "unlinkAll" /\ fs' # fs) => op.id \notin DOMAIN records
     /\ (op.pc # "unlinkAll" /\ op'.pc = "unlinkAll")
          => (fs' = fs /\ op'.id \in DOMAIN records /\ op'.id \notin DOMAIN records')
     /\ (op.pc = "unlinkAll" /\ op.data.hasThumb
           /\ assetPath(op.data) \in fs /\ assetPath(op.data) \notin fs')
          => Thumb(op.id) \notin fs
    ]_vars

\* a delete has removed the thumbnail and is about to remove the primary file
DeleteRemovedThumbFirst ==
  /\ op.kind = "delete" /\ op.pc = "unlinkAll" /\ op.data.hasThumb
  /\ "thumb" \in op.pre /\ Thumb(op.id) \notin fs
  /\ op.chainA = "fileRm" /\ assetPath(op.data) \in fs

\* C10: deleteMany fails with FUNC_DISABLED in every state and changes no record
\* and no file.
DeleteManyDisabled ==
  [][(op.pc = "idle" /\ op'.kind = "deleteMany")
       => (op'.pc = "return" /\ op'.err = "FUNC_DISABLED"
           /\ records' = records /\ fs' = fs)]_vars

\* deleteMany has returned while records and files of assets exist
DeleteManyReturned ==
  /\ op.kind = "deleteMany" /\ op.pc = "return"
  /\ DOMAIN records # {}
  /\ \E i \in DOMAIN records : assetPath(records[i]) \in fs /\ Thumb(i) \in fs


\* C11: after a successful update with a file, in a run where no call has failed,
\* exactly one primary file exists for the id, at the path of the record.
ReplaceLeavesOnePrimary ==
  [][(op.kind = "update" /\ op.pc = "dbUpdate" /\ op'.pc = "return" /\ op'.err = ""
        /\ ~faulted')
       => PrimaryFilesOf(op.id) = {assetPath(records'[op.id])}]_vars

\* uploads of further MIME types, for the rule of hasThumb
OtherUploads ==
  { File("audio", <<"m", "p", "e", "g">>, <<"a">>),
    File("application", <<"p", "d", "f">>, <<"a">>),
    File("text", <<"p", "l", "a", "i", "n">>, <<"a">>),
    File("image", <<"g", "i", "f">>, <<"a">>),
    File("video", <<"w", "e", "b", "m">>, <<"a">>) }

\* C12: hasThumb is TRUE exactly for image and video types other than svg+xml,
\* in what updateFile computes for the upload of an operation that starts and in
\* every record that is written; the insert of an svg+xml
\* file creates no thumbnail, and housekeeping starts no generation for a record
\* of subtype svg+xml.
ThumbOnlyForRaster ==
  [][/\ (op.pc = "idle" /\ op'.pc # "idle")
          => \A f \in Files \cup OtherUploads, i \in 1..MaxAssets :
               updateFileData(i, f).hasThumb
                 = (f.type \in {"image", "video"} /\ f.subtype # SVGXML)
     /\ records' # records
          => \A i \in DOMAIN records' :
               records'[i].type # ""
                 => records'[i].hasThumb
                      = (records'[i].type \in {"image", "video"}
                           /\ records'[i].subtype # SVGXML)
     /\ (op'.kind = "insert" /\ op'.data.subtype = SVGXML)
          => thumbPath(op'.id, thumbnailExt) \notin fs'
     /\ hk' # hk
          => \A i \in DOMAIN records :
               (records[i].subtype = SVGXML /\ hk[i].pc = "idle") => hk'[i].pc = "idle"
    ]_vars

\* a housekeeping scan works on another record and has started nothing for a
\* record of subtype svg+xml, which has no thumbnail
ScanSkippedVector ==
  \E i, j \in DOMAIN records :
    /\ records[i].subtype = SVGXML /\ ~records[i].hasThumb
    /\ Thumb(i) \notin fs
    /\ hk[i].pc = "idle" /\ hk[j].pc = "tmpWrite"

\* C13: after a successful insert of an image/png file, in a run where no call has
\* failed, the record has path `<id>.png` and hasThumb, and the thumbnail exists.
RasterCreateHasThumb ==
  (op.kind = "insert" /\ op.pc = "return" /\ op.err = "" /\ op.ret.subtype = PNG
     /\ ~faulted)
    => /\ op.ret.path = RelPath(IdStr(op.id) \o <<".">> \o PNG)
       /\ op.ret.hasThumb
       /\ Thumb(op.id) \in fs

\* C14: an operation in which the transcoder failed returns GENERATE_THUMB_FAIL.
ToolErrorPropagated ==
  (op.pc = "return" /\ op.cause = "ffmpeg") => op.err = "GENERATE_THUMB_FAIL"

\* C15: when the transcoder fails during insert, the record and the primary file
\* exist when insert returns and the record has hasThumb = FALSE.
ThumbFailureKeepsAsset ==
  (op.kind = "insert" /\ op.pc = "return" /\ op.cause = "ffmpeg")
    => /\ op.id \in DOMAIN records
       /\ ~records[op.id].hasThumb
       /\ PrimaryFilesOf(op.id) # {}

\* C16: the probe step never fails the operation: it always leads to the final
\* record update without error, and a failed probe leaves the wrapper's data as
\* they were.
ProbeFailureIsSoft ==
  [][op.pc = "probe"
       => /\ op'.pc = "dbUpdate"
          /\ op'.err = ""
          /\ (~faulted /\ faulted') => op'.data = op.data]_vars

\* an insert whose probe failed has persisted the record and returned it
ProbeFailedInsertReturned ==
  /\ op.kind = "insert" /\ op.pc = "return" /\ op.err = ""
  /\ op.ret.hasThumb /\ op.ret.resolution = "none"
  /\ op.id \in DOMAIN records /\ records[op.id] = op.ret

\* C17: the statement after `await this.write(...)` starts only when the output
\* stream has finished and every chunk is in the file.
WriteCompleteBeforeNextStep ==
  [][(wr.caller = "none" /\ wr'.caller = "continued")
       => (wr.out = "finished" /\ wr.stored = wr.total)]_vars

\* C18: when insert or update returns, the uploaded temporary file does not exist.
UploadGoneAfterOperation ==
  (op.pc = "return" /\ op.kind \in {"insert", "update"}) => UploadLoc \notin fs

\* C19: when generateThumb is left, by return or by throw, the temporary copy
\* does not exist.
TempCopyGoneAfterGenerateThumb ==
  [][(op.pc \in {"tmpWrite", "ffmpeg", "tmpDelete"}
        /\ op'.pc \notin {"tmpWrite", "ffmpeg", "tmpDelete"})
       => tempPath(op.data) \notin fs']_vars

\* C20: whenever the promise of write is resolved every chunk of the input is in
\* the file, and whenever the output stream has failed the promise is rejected.
WriteDrainsInput ==
  /\ wr.promise = "resolved" => wr.stored = wr.total
  /\ wr.out = "errored" => wr.promise = "rejected"

\* C30: resolvePath of a relative path, whatever its segments, returns a location
\* inside the root it was given, and an absolute path is returned unchanged.
ResolveStaysInRoot ==
  (rp.called /\ rp.err = "")
    => IF rp.path.abs THEN rp.out = rp.path
       ELSE rp.out.abs /\ StartsWith(rp.out.segs, rp.root)

\* C26: registering under a name that already has an entry, the built-in
\* 'local' included, fails with an error and leaves the registry as it was;
\* a lookup of a registered name returns the entry registered first.
DuplicateRegistrationRejected ==
  [][/\ (reg' # reg /\ reg'.call = "registerAssetType" /\ reg'.name \in DOMAIN assetTypes)
          => (reg'.err # "" /\ assetTypes' = assetTypes)
     /\ (reg' # reg /\ reg'.call = "registerAssetRepository"
            /\ reg'.name \in DOMAIN repositories)
          => (reg'.err # "" /\ repositories' = repositories)
     /\ \A n \in DOMAIN assetTypes :
          n \in DOMAIN assetTypes' /\ assetTypes'[n] = assetTypes[n]
     /\ \A n \in DOMAIN repositories :
          n \in DOMAIN repositories' /\ repositories'[n] = repositories[n]
     /\ (reg'.call = "createFsWrapper" /\ reg'.name \in DOMAIN assetTypes')
          => (reg'.err = "" /\ reg'.out = assetTypes'[reg'.name])
     /\ (reg'.call = "getRepo" /\ reg'.name \in DOMAIN repositories')
          => (reg'.err = "" /\ reg'.out = repositories'[reg'.name])
    ]_vars

\* a second class named 'local' was refused and LocalAsset is still registered
DuplicateLocalRefused ==
  /\ reg.call = "registerAssetType"
  /\ reg.name = "local"
  /\ reg.err = "ASSET_TYPE_EXISTS"
  /\ reg.cls # LocalAssetClass
  /\ assetTypes["local"] = LocalAssetClass

\* C27: what is registered is derived from the abstract base: a class or an
\* instance that is not is refused with an error and adds nothing.
RegistryEntriesConform ==
  /\ \A n \in DOMAIN assetTypes : assetTypes[n].base \in {"AbstractAsset", "LocalAsset"}
  /\ \A n \in DOMAIN repositories : repositories[n].base \in {"AbstractAsset", "LocalAsset"}
  /\ (reg.call \in {"registerAssetType", "registerAssetRepository"} /\ reg.cls.base = "none")
       => reg.err # ""

\* C28: a lookup returns something only for a name that has been registered, and
\* fails with the not-found error of the registry for every other name.
LookupOnlyOfRegistered ==
  /\ reg.call = "createFsWrapper"
       => IF reg.name \in DOMAIN assetTypes
            THEN reg.err = "" ELSE reg.err = "ASSET_TYPE_UNKNOWN" /\ reg.out = Undefined
  /\ reg.call = "getRepo"
       => IF reg.name \in DOMAIN repositories
            THEN reg.err = "" ELSE reg.err = "REPO_NOT_FOUND" /\ reg.out = Undefined

\* C21: after a move of an existing file to another path, a read at the new path
\* gives the content the file had and a read at the old path fails with
\* NOT_FOUND; a move whose old path does not exist fails with NOT_FOUND and
\* leaves every file and directory as it was.
MoveThenRead ==
  /\ (mv.call = "read" /\ mv.pc = "done" /\ mv.last # NoMove /\ mv.last.from # mv.last.to)
       => /\ mv.path = mv.last.to => (mv.err = "" /\ mv.out = mv.last.content)
          /\ mv.path = mv.last.from => (mv.err = "NOT_FOUND" /\ mv.out = "none")
  /\ (mv.call = "move" /\ mv.pc = "done" /\ mv.path \notin DOMAIN mv.before.files)
       => (mv.err = "NOT_FOUND" /\ disk = mv.before)

\* a file was moved into a directory made for it and then read at its new path
MovedFileRead ==
  /\ mv.call = "read" /\ mv.pc = "done"
  /\ mv.last # NoMove /\ mv.last.to.dir = NewDir
  /\ mv.path = mv.last.to
  /\ mv.out = mv.last.content


\* record i's regeneration ends, in a run where no call has failed and no
\* operation is under way, for a record that is still as the scan read it and
\* whose primary file is present
RegenerationEnds(i) ==
  /\ hk[i].pc = "tmpDelete" /\ hk'[i].pc = "idle"
  /\ ~faulted' /\ op.pc = "idle"
  /\ i \in DOMAIN records /\ records[i] = hk[i].data
  /\ assetPath(hk[i].data) \in fs

\* C22: when housekeeping regenerates the missing thumbnail of a record with
\* hasThumb whose primary file is present, the thumbnail exists once the
\* regeneration has ended; and no step of housekeeping changes a record.
HousekeepingRegeneratesThumb ==
  [][/\ \A i \in 1..MaxAssets : RegenerationEnds(i) => Thumb(i) \in fs'
     /\ (hk' # hk \/ scan' # scan) /\ op' = op => records' = records
    ]_vars

\* what the existence checks of the scan have reported
ErrorReports == {e \in log : e.level = "error"}

\* C23: once the scan has checked every record it read, no missing primary
\* file has been reported by an error of its own (NOT_FOUND for the one
\* record): the missing files are the entries of one aggregate MISSING_ASSETS
\* error.
MissingReportedAsAggregate ==
  (scan.ran /\ \A i \in 1..MaxAssets : scan.ensure[i].pc = "idle")
    => /\ \A e \in ErrorReports : e.code # "NOT_FOUND"
       /\ Cardinality({e \in ErrorReports : e.code = "MISSING_ASSETS"}) <= 1

\* C24: regeneration is conditional.  A step of record i's regeneration creates
\* the thumbnail only of a record that has hasThumb; the transcoder is never
\* run while the thumbnail exists; and when the primary file is missing the
\* regeneration writes nothing and logs the condition.  (The first two parts
\* leave aside the temporary copy that lies at the thumbnail's own path.)
RegenerationIsConditional ==
  [][\A i \in 1..MaxAssets :
       /\ ( /\ hk'[i] # hk[i] /\ tempPath(hk[i].data) # Thumb(i)
            /\ Thumb(i) \in fs' \ fs /\ i \in DOMAIN records )
            => records[i].hasThumb
       /\ ( /\ hk[i].pc = "ffmpeg" /\ hk'[i].pc = "tmpDelete"
            /\ tempPath(hk[i].data) # Thumb(i) )
            => Thumb(i) \notin fs
       /\ ( /\ hk[i].pc = "tmpWrite" /\ hk'[i] # hk[i]
            /\ assetPath(hk[i].data) \notin fs )
            => (fs' = fs /\ LogEntry("warn", i, "NOT_FOUND") \in log')
    ]_vars

\* the steps the work on record j can take next
WorkOn(j) ==
  \/ ensureExistsLogged(j)
  \/ HkThumbStat(j)
  \/ HkTempWrite(j)
  \/ HkFfmpeg(j)
  \/ HkCleanup(j)

\* C25: the scan starts the existence check of every record whose repository
\* is known, and the regeneration of those that have hasThumb, whatever the
\* other records are; a step of the work on one record, failing or not, leaves
\* the work on every other record as it was; and work that has been started can
\* always take its next step.
PerItemIsolation ==
  /\ [][\A j \in 1..MaxAssets :
       /\ (~scan.ran /\ scan'.ran /\ j \in DOMAIN records /\ wrapperError(records[j]) = "")
            => /\ scan'.ensure[j].pc = "stat"
               /\ records[j].hasThumb => hk'[j].pc = "thumbStat"
       /\ \A i \in 1..MaxAssets \ {j} :
            (scan.ran /\ (hk'[i] # hk[i] \/ scan'.ensure[i] # scan.ensure[i]))
              => (hk'[j] = hk[j] /\ scan'.ensure[j] = scan.ensure[j])
    ]_vars
  /\ [](\A j \in 1..MaxAssets :
         (hk[j].pc # "idle" \/ scan.ensure[j].pc # "idle") => ENABLED WorkOn(j))

\* the scan has met record i, whose repository is unknown, and has started the
\* existence check and the regeneration of record j
ScanPassedUnknownRepository ==
  \E i, j \in DOMAIN records :
    /\ wrapperError(records[i]) # ""
    /\ scan.ran /\ scan.ensure[i].pc = "idle" /\ hk[i].pc = "idle"
    /\ wrapperError(records[j]) = "" /\ records[j].hasThumb
    /\ scan.ensure[j].pc = "stat" /\ hk[j].pc = "thumbStat"

\* the asset a request asks for is missing: no record has the id, or the
\* record has no primary file, or the thumbnail is asked for and there is none
MissingAsset(id, thumb) ==
  \/ id \notin DOMAIN records
  \/ ~thumb /\ (records[id].path = NoPath \/ assetPath(records[id]) \notin fs)
  \/ thumb /\ Thumb(id) \notin fs

\* C29: when the handler settles a request for an asset that is missing at
\* that moment, it reports NOT_FOUND and has sent no content.
ServeMissingIsNotFound ==
  [][(srv.pc # "done" /\ srv'.pc = "done" /\ MissingAsset(srv'.id, srv'.thumb))
       => (srv'.out = "NOT_FOUND" /\ ~srv'.sent)]_vars

\* C36: delete of a record with hasThumb whose primary file and thumbnail both
\* exist returns without an error, unless the file system refused a removal
\* (EIO): the two removals of the thumbnail never make it fail.
DeleteOfCompleteAssetSucceeds ==
  ( /\ op.kind = "delete" /\ op.pc = "return"
    /\ op.ret.hasThumb /\ op.pre = {"primary", "thumb"} )
    => op.err \in {"", "EIO"}

\* C39: when two calls of delete on the same path, each started while the file
\* existed, have both settled, neither has failed except by a refused removal
\* (EIO), and the file is absent when both were carried out.
ConcurrentDeletesSucceed ==
  \A k, l \in Callers :
    ( /\ k # l
      /\ Settled(dl.call[k].cs) /\ Settled(dl.call[l].cs)
      /\ dl.call[k].path = dl.call[l].path
      /\ dl.call[k].pre /\ dl.call[l].pre )
      => /\ dl.call[k].err \in {"", "EIO"}
         /\ (dl.call[k].err = "" /\ dl.call[l].err = "") => dl.call[k].path \notin dl.fs

\* C38: every call of write settles in the end: its promise does not stay
\* pending.
WriteSettles ==
  (wr.promise = "pending") ~> (wr.promise \in {"resolved", "rejected"})

\* C37: the promise that performHousekeeping returns settles: whatever records
\* the scan finds, the promise is one that becomes fulfilled.
HousekeepingPromiseSettles ==
  [][(~scan.ran /\ scan'.ran) => housekeepingPromise(records) = "fulfilled"]_vars

\* C32: no record of type image carries a duration.
ImageHasNoDuration ==
  \A i \in DOMAIN records : records[i].type = "image" => records[i].duration = "none"

\* the fields of a record that the processing of a file sets
FileFields == {"path", "type", "subtype", "size", "hasThumb"}

\* C33: an insert or update that returns without an error returns the record
\* as it is stored: path, type, subtype, size and hasThumb of the returned
\* record are those of the record in the database.
ReturnsPersistedRecord ==
  (op.kind \in {"insert", "update"} /\ op.pc = "return" /\ op.err = "")
    => /\ op.id \in DOMAIN records
       /\ \A k \in FileFields : op.ret[k] = records[op.id][k]

\* an insert has processed its file and returned the stored record, which is
\* not the provisional one
InsertReturnedStoredRecord ==
  /\ op.kind = "insert" /\ op.pc = "return" /\ op.err = ""
  /\ op.ret.path # NoPath /\ op.ret.type = "image" /\ op.ret.hasThumb
  /\ op.ret = records[op.id]

\* C35: while insert rolls back, the error the caller will receive stays the
\* error that made the operation fail.
RollbackKeepsOriginalError ==
  [][(op.kind = "insert" /\ op.pc \in {"rollback", "unlinkAll"}) => op'.err = op.err]_vars

\* <thumbnailDir>/<id><thumbnailExt>
ThumbLocation(i) == AbsPath(ThumbnailDir, IdStr(i) \o thumbnailExt)

\* C34: the transcoder of insert, update and housekeeping writes the thumbnail at
\* <thumbnailDir>/<id><thumbnailExt>, housekeeping skips a record exactly when a
\* file is there, a request for the thumbnail goes on exactly when a file is
\* there, and the thumbnail removals of delete remove that file and no other.
ThumbnailLocationShared ==
  [][ /\ (op.pc = "ffmpeg" /\ op' # op) => (fs' \ fs) \subseteq {ThumbLocation(op.id)}
      /\ \A i \in 1..MaxAssets :
           /\ (hk[i].pc = "thumbStat" /\ hk'[i] # hk[i])
                => (hk'[i] = HkIdle <=> ThumbLocation(i) \in fs)
           /\ (hk[i].pc = "ffmpeg" /\ hk'[i] # hk[i])
                => (fs' \ fs) \subseteq {ThumbLocation(i)}
      /\ (srv.pc = "stat" /\ srv.thumb /\ srv' # srv)
           => (srv'.pc = "open" <=> ThumbLocation(srv.id) \in fs)
      /\ (op.pc = "unlinkAll" /\ op' # op)
           => /\ (fs \ fs') \subseteq {ThumbLocation(op.id), assetPath(op.data)}
              /\ (op'.chainB # op.chainB => (fs \ fs') \subseteq {ThumbLocation(op.id)})
    ]_vars

\* the thumbnail insert generated has been served and then removed by delete
GeneratedThumbServedAndRemoved ==
  /\ op.kind = "delete" /\ op.pc = "return" /\ op.err = ""
  /\ "thumb" \in op.pre /\ ThumbLocation(op.id) \notin fs
  /\ srv.pc = "done" /\ srv.thumb /\ srv.out = "ok" /\ srv.id = op.id

\* the stored paths of the assets, as a caller can give them to update
PeerPaths == {RelPath(IdStr(i) \o <<".">> \o PNG) : i \in 1..MaxAssets}

NextCross ==
  \/ Insert(RasterUpload)
  \/ \E id \in DOMAIN records, cpath \in PeerPaths \cup {NoPath} :
       Update(id, cpath, "undefined", RasterUpload)
  \/ UpdateFileDelete
  \/ UpdateFileWrite
  \/ UpdateFileUnlink
  \/ GenerateThumbTempWrite
  \/ GenerateThumbFfmpeg
  \/ GenerateThumbCleanup
  \/ UpdateFileMetadata
  \/ PersistUpdate
  \/ \E id \in DOMAIN records : Delete(id)
  \/ InsertRollback
  \/ DeleteAssetStep
  \/ DeleteThumbStep
  \/ DeleteSettle
  \/ Return
  \/ performHousekeeping
  \/ \E i \in 1..MaxAssets : ensureExistsLogged(i)
  \/ \E i \in 1..MaxAssets : HkThumbStat(i)
  \/ \E i \in 1..MaxAssets : HkTempWrite(i)
  \/ \E i \in 1..MaxAssets : HkFfmpeg(i)
  \/ \E i \in 1..MaxAssets : HkCleanup(i)

\* insert, update and delete of raster images of several ids with housekeeping
SpecCross == Init /\ [][NextCross]_vars

\* the files of asset i: <id>.<anything> under assetDir or thumbnailDir
OwnedBy(p, i) ==
  p.dir \in {AssetDir, ThumbnailDir} /\ StartsWith(p.name, IdStr(i) \o <<".">>)

\* C31: a step of an operation on one id, or of the housekeeping of one id,
\* creates and removes only files of that id (and the operation's upload).
OperationsKeepToOwnFiles ==
  [][ /\ op' # op =>
           \A p \in (fs' \ fs) \cup (fs \ fs') : p = UploadLoc \/ OwnedBy(p, op'.id)
      /\ \A i \in 1..MaxAssets :
           (hk[i].pc # "idle" /\ hk'[i] # hk[i]) =>
              \A p \in (fs' \ fs) \cup (fs \ fs') : OwnedBy(p, i)
    ]_vars

====
